---- MODULE Spec2Model ----
(***************************************************************************)
(* A model of parser.py of xi/timelog: the lazily parsed log (LazyTuple,   *)
(* LazyTimelog), the range queries (Query), the aggregation (Extractor).   *)
(* Raw lines are sequences of one-character strings, sequences are Python  *)
(* tuples shifted by one (Python index i is TLA+ index i + 1).             *)
(***************************************************************************)
EXTENDS Integers, Sequences, FiniteSets, TLC

\* ------------------------------------------------------------------ bounds
\* longest log (number of raw lines) of the lazy sequence specification
MaxLenLazy == 3
\* longest log of the range query specification
MaxLen == 4
\* number of before/after calls made on one Query
MaxCalls == 2
\* longest log and number of calls of the specification of composed queries
MaxLenCompose == 5

MaxCallsCompose == 4
\* longest log of the calendar specification
MaxLenCalendar == 3
\* longest log and number of narrowing calls on each of two Query objects that
\* share a lazy sequence
MaxLenShared == 3

MaxCallsShared == 1
\* longest log and number of calls of the specification of all narrowing
\* methods
MaxLenWindow == 4

MaxCallsWindow == 2
\* largest number of months and of years added to or taken from a date
MaxMonthsAdded == 14

MaxYearsAdded == 1
\* longest log and number of calls of the specification of failing probes
MaxLenFailing == 4

MaxCallsFailing == 2
\* most lines of the file read by timelog2csv
MaxLenCsv == 4
\* longest entry sequence handed to an Extractor
MaxEntries == 4

\* ------------------------------------------------------- characters, values
Digits == {"0", "1", "2", "3", "4", "5", "6", "7", "8", "9"}

DigitVal == ("0" :> 0) @@ ("1" :> 1) @@ ("2" :> 2) @@ ("3" :> 3) @@ ("4" :> 4)
            @@ ("5" :> 5) @@ ("6" :> 6) @@ ("7" :> 7) @@ ("8" :> 8) @@ ("9" :> 9)

\* the character at position p of s, "" past its end
At(s, p) == IF p >= 1 /\ p <= Len(s) THEN s[p] ELSE ""

\* Python's s[a:] and s[:b] for a tuple s (negative bounds count from the end)
Clamp(k, n) == IF k < 0 THEN (IF k + n < 0 THEN 0 ELSE k + n)
               ELSE (IF k > n THEN n ELSE k)

SliceFrom(s, k) == SubSeq(s, Clamp(k, Len(s)) + 1, Len(s))

SliceTo(s, k) == SubSeq(s, 1, Clamp(k, Len(s)))

\* the values of a cache slot
None == [tag |-> "None"]

EMPTY_LINE == [tag |-> "EMPTY_LINE"]

Entry(d, c) == [tag |-> "entry", dt |-> d, comment |-> c]

ParseError(i, m) == [tag |-> "ParseError", line |-> i, msg |-> m]

TypeError == [tag |-> "TypeError"]

\* ------------------------------------------------------ datetime, timedelta
datetime(y, mo, d, h, mi, s, us) ==
    [year |-> y, month |-> mo, day |-> d, hour |-> h, minute |-> mi,
     second |-> s, microsecond |-> us]

IsLeap(y) == y % 4 = 0 /\ (y % 100 # 0 \/ y % 400 = 0)

DaysInMonth(y, m) ==
    IF m = 2 THEN (IF IsLeap(y) THEN 29 ELSE 28)
    ELSE IF m \in {4, 6, 9, 11} THEN 30 ELSE 31

RECURSIVE DaysBeforeMonth(_, _)
DaysBeforeMonth(y, m) ==
    IF m <= 1 THEN 0 ELSE DaysBeforeMonth(y, m - 1) + DaysInMonth(y, m - 1)

DaysBeforeYear(y) ==
    LET p == y - 1 IN p * 365 + (p \div 4) - (p \div 100) + (p \div 400)

\* date.toordinal(): day 1 is 0001-01-01
Ordinal(d) == DaysBeforeYear(d.year) + DaysBeforeMonth(d.year, d.month) + d.day

\* whether the datetime constructor accepts the fields
ValidDate(y, mo, d) ==
    /\ y >= 1 /\ y <= 9999
    /\ mo >= 1 /\ mo <= 12
    /\ d >= 1 /\ d <= DaysInMonth(y, mo)

\* dt1 <= dt2 and dt1 < dt2 of two datetimes
DtKey(d) == <<d.year, d.month, d.day, d.hour, d.minute, d.second, d.microsecond>>

RECURSIVE LexLess(_, _, _)
LexLess(a, b, k) ==
    IF k > Len(a) THEN FALSE
    ELSE IF a[k] # b[k] THEN a[k] < b[k]
    ELSE LexLess(a, b, k + 1)

DtLT(a, b) == LexLess(DtKey(a), DtKey(b), 1)

DtLE(a, b) == a = b \/ DtLT(a, b)

\* timedelta(): days, seconds in 0..86399, microseconds in 0..999999
timedelta(d, s, us) ==
    [days |-> d + ((s + (us \div 1000000)) \div 86400),
     seconds |-> (s + (us \div 1000000)) % 86400,
     microseconds |-> us % 1000000]

ZeroDelta == timedelta(0, 0, 0)

\* a - b of two datetimes
DtSub(a, b) ==
    timedelta(Ordinal(a) - Ordinal(b),
              (a.hour * 3600 + a.minute * 60 + a.second)
                - (b.hour * 3600 + b.minute * 60 + b.second),
              a.microsecond - b.microsecond)

\* x + y of two timedeltas
DeltaAdd(x, y) ==
    timedelta(x.days + y.days, x.seconds + y.seconds,
              x.microseconds + y.microseconds)

\* ------------------------------------------------------------- LazyTimelog
\* str.find: the first position p >= k at which ": " starts in s, 0 if none
RECURSIVE FindSep(_, _)
FindSep(s, k) ==
    IF k + 1 > Len(s) THEN 0
    ELSE IF s[k] = ":" /\ s[k + 1] = " " THEN k
    ELSE FindSep(s, k + 1)

\* strptime matches the directives of DT_FORMAT one after the other: r is the
\* match so far, the fields found and the position next of the first
\* character not matched yet; every directive takes the first alternative of
\* its pattern that fits, a and b being the next two characters
MatchStart ==
    [ok |-> TRUE, next |-> 1, year |-> 0, month |-> 0, day |-> 0, hour |-> 0,
     minute |-> 0]

NoMatch ==
    [ok |-> FALSE, next |-> 0, year |-> 0, month |-> 0, day |-> 0, hour |-> 0,
     minute |-> 0]

\* %Y: \d\d\d\d
MatchYear(s, r) ==
    IF r.ok /\ \A k \in 0..3 : At(s, r.next + k) \in Digits
    THEN [r EXCEPT !.year = DigitVal[s[r.next]] * 1000
                             + DigitVal[s[r.next + 1]] * 100
                             + DigitVal[s[r.next + 2]] * 10
                             + DigitVal[s[r.next + 3]],
                   !.next = @ + 4]
    ELSE NoMatch

\* %m: 1[0-2]|0[1-9]|[1-9]
MonthAlternatives(r, a, b) ==
    IF ~r.ok THEN NoMatch
    ELSE IF a = "1" /\ b \in {"0", "1", "2"}
    THEN [r EXCEPT !.month = 10 + DigitVal[b], !.next = @ + 2]
    ELSE IF a = "0" /\ b \in Digits \ {"0"}
    THEN [r EXCEPT !.month = DigitVal[b], !.next = @ + 2]
    ELSE IF a \in Digits \ {"0"}
    THEN [r EXCEPT !.month = DigitVal[a], !.next = @ + 1]
    ELSE NoMatch

MatchMonth(s, r) == MonthAlternatives(r, At(s, r.next), At(s, r.next + 1))

\* %d: 3[01]|[12]\d|0[1-9]|[1-9]| [1-9]
DayAlternatives(r, a, b) ==
    IF ~r.ok THEN NoMatch
    ELSE IF a = "3" /\ b \in {"0", "1"}
    THEN [r EXCEPT !.day = 30 + DigitVal[b], !.next = @ + 2]
    ELSE IF a \in {"1", "2"} /\ b \in Digits
    THEN [r EXCEPT !.day = DigitVal[a] * 10 + DigitVal[b], !.next = @ + 2]
    ELSE IF a = "0" /\ b \in Digits \ {"0"}
    THEN [r EXCEPT !.day = DigitVal[b], !.next = @ + 2]
    ELSE IF a \in Digits \ {"0"}
    THEN [r EXCEPT !.day = DigitVal[a], !.next = @ + 1]
    ELSE IF a = " " /\ b \in Digits \ {"0"}
    THEN [r EXCEPT !.day = DigitVal[b], !.next = @ + 2]
    ELSE NoMatch

MatchDay(s, r) == DayAlternatives(r, At(s, r.next), At(s, r.next + 1))

\* %H: 2[0-3]|[0-1]\d|\d
HourAlternatives(r, a, b) ==
    IF ~r.ok THEN NoMatch
    ELSE IF a = "2" /\ b \in {"0", "1", "2", "3"}
    THEN [r EXCEPT !.hour = 20 + DigitVal[b], !.next = @ + 2]
    ELSE IF a \in {"0", "1"} /\ b \in Digits
    THEN [r EXCEPT !.hour = DigitVal[a] * 10 + DigitVal[b], !.next = @ + 2]
    ELSE IF a \in Digits
    THEN [r EXCEPT !.hour = DigitVal[a], !.next = @ + 1]
    ELSE NoMatch

MatchHour(s, r) == HourAlternatives(r, At(s, r.next), At(s, r.next + 1))

\* %M: [0-5]\d|\d
MinuteAlternatives(r, a, b) ==
    IF ~r.ok THEN NoMatch
    ELSE IF a \in {"0", "1", "2", "3", "4", "5"} /\ b \in Digits
    THEN [r EXCEPT !.minute = DigitVal[a] * 10 + DigitVal[b], !.next = @ + 2]
    ELSE IF a \in Digits
    THEN [r EXCEPT !.minute = DigitVal[a], !.next = @ + 1]
    ELSE NoMatch

MatchMinute(s, r) == MinuteAlternatives(r, At(s, r.next), At(s, r.next + 1))

\* a literal character c of the format
MatchChar(s, c, r) ==
    IF r.ok /\ At(s, r.next) = c THEN [r EXCEPT !.next = @ + 1] ELSE NoMatch

\* the blank of the format: \s+
RECURSIVE SkipSpaces(_, _)
SkipSpaces(s, p) == IF At(s, p) = " " THEN SkipSpaces(s, p + 1) ELSE p

MatchSpaces(s, r) ==
    IF r.ok /\ At(s, r.next) = " "
    THEN [r EXCEPT !.next = SkipSpaces(s, r.next)]
    ELSE NoMatch

ValueError(m) == [tag |-> "ValueError", msg |-> m]

\* the end of strptime: the whole of s must be matched and the date exist
MatchEnd(s, r) ==
    IF ~r.ok THEN ValueError("does not match format")
    ELSE IF r.next # Len(s) + 1 THEN ValueError("unconverted data remains")
    ELSE IF ~ValidDate(r.year, r.month, r.day) THEN ValueError("out of range")
    ELSE [tag |-> "datetime",
          value |-> datetime(r.year, r.month, r.day, r.hour, r.minute, 0, 0)]

\* datetime.strptime(s, DT_FORMAT) with DT_FORMAT = '%Y-%m-%d %H:%M': the datetime
\* as [tag |-> "datetime", value], or the ValueError strptime raises
strptime(s) ==
    MatchEnd(s,
      MatchMinute(s, MatchChar(s, ":",
        MatchHour(s, MatchSpaces(s,
          MatchDay(s, MatchChar(s, "-",
            MatchMonth(s, MatchChar(s, "-",
              MatchYear(s, MatchStart))))))))))

\* the return of parse: d is what strptime made of the text before the
\* separator, a ValueError becoming the ParseError of line i
parse_return(i, d, comment) ==
    IF d.tag = "ValueError" THEN ParseError(i, d.msg) ELSE Entry(d.value, comment)

\* dt, comment = s.split(': ', 1), k being the position of the separator
parse_split(s, i, k) ==
    IF k = 0 THEN ParseError(i, "not enough values to unpack")
    ELSE parse_return(i, strptime(SubSeq(s, 1, k - 1)), SubSeq(s, k + 2, Len(s)))

parse_line(s, i) == IF s = <<>> THEN EMPTY_LINE ELSE parse_split(s, i, FindSep(s, 1))

\* LazyTimelog.parse(i) on the lines lines: EMPTY_LINE, an entry, or the
\* ParseError it raises (i is the Python index)
parse(lines, i) == parse_line(lines[i + 1], i)

\* --------------------------------------------------------------- LazyTuple
\* LazyTuple.__init__: one empty cache slot for every line
InitData(lines) == [k \in 1..Len(lines) |-> None]

\* self._data[i] = self.parse(i), v being what parse returned or raised: the
\* cache after it, the value returned (a tuple of one, empty when it raises),
\* the exception raised (None when it returns) and the indices handed to parse
store(data, i, v) ==
    IF v.tag = "ParseError"
    THEN [data |-> data, value |-> <<>>, err |-> v, parsed |-> {i}]
    ELSE [data |-> [data EXCEPT ![i + 1] = v], value |-> <<v>>, err |-> None,
          parsed |-> {i}]

\* the assignment as it would be if the failure of parse were stored too
store_failure(data, i, v) ==
    IF v.tag = "ParseError"
    THEN [data |-> [data EXCEPT ![i + 1] = v], value |-> <<>>, err |-> v,
          parsed |-> {i}]
    ELSE [data |-> [data EXCEPT ![i + 1] = v], value |-> <<v>>, err |-> None,
          parsed |-> {i}]

\* __getitem__ as it would be without the test of the slot: it parses and
\* stores on every access
getitem_always_parse(lines, data, i) == store(data, i, parse(lines, i))

\* __getitem__ as it would be if it stored the failure of parse in the slot
getitem_cache_failure(lines, data, i) ==
    IF data[i + 1] = None THEN store_failure(data, i, parse(lines, i))
    ELSE IF data[i + 1].tag = "ParseError"
    THEN [data |-> data, value |-> <<>>, err |-> data[i + 1], parsed |-> {}]
    ELSE [data |-> data, value |-> <<data[i + 1]>>, err |-> None, parsed |-> {}]

\* LazyTuple.__getitem__(i) on the lines lines and the cache data
getitem(lines, data, i) ==
    IF data[i + 1] = None THEN store(data, i, parse(lines, i))
    ELSE [data |-> data, value |-> <<data[i + 1]>>, err |-> None, parsed |-> {}]

\* LazyTuple.__iter__ consumed to its end or to the first exception, from
\* index i on: the values yielded so far are in out, g is what self[i] did
RECURSIVE iter(_, _, _, _, _)
iter_yield(lines, i, out, parsedSet, g) ==
    IF g.err # None
    THEN [data |-> g.data, value |-> out, err |-> g.err,
          parsed |-> parsedSet \cup g.parsed]
    ELSE iter(lines, g.data, i + 1, out \o g.value, parsedSet \cup g.parsed)

iter(lines, data, i, out, parsedSet) ==
    IF i >= Len(lines)
    THEN [data |-> data, value |-> out, err |-> None, parsed |-> parsedSet]
    ELSE iter_yield(lines, i, out, parsedSet, getitem(lines, data, i))

\* ------------------------------------------------------------ datetime_add
\* date.fromordinal: the year, month and day of ordinal n
RECURSIVE YearOf(_, _)
YearOf(n, y) == IF DaysBeforeYear(y + 1) < n THEN YearOf(n, y + 1) ELSE y

RECURSIVE MonthOf(_, _, _)
MonthOf(n, y, m) ==
    IF DaysBeforeMonth(y, m + 1) < n THEN MonthOf(n, y, m + 1) ELSE m

\* the date of day r of year y, m being its month
DateInMonth(y, r, m) == [year |-> y, month |-> m, day |-> r - DaysBeforeMonth(y, m)]

DateInYear(y, r) == DateInMonth(y, r, MonthOf(r, y, 1))

DateOfYear(n, y) == DateInYear(y, n - DaysBeforeYear(y))

FromOrdinal(n) == DateOfYear(n, YearOf(n, (n \div 366) + 1))

\* dt + delta of a datetime and a timedelta: the date d, second t of the day
\* and microsecond us of the sum
DtAt(d, t, us) ==
    datetime(d.year, d.month, d.day, t \div 3600, (t % 3600) \div 60, t % 60, us)

DtCarry(dt, days, s, us) ==
    DtAt(FromOrdinal(Ordinal(dt) + days + (s \div 86400)), s % 86400,
         us % 1000000)

DtAddMicro(dt, delta, us) ==
    DtCarry(dt, delta.days,
            dt.hour * 3600 + dt.minute * 60 + dt.second + delta.seconds
              + (us \div 1000000),
            us)

DtAdd(dt, delta) == DtAddMicro(dt, delta, dt.microsecond + delta.microseconds)

\* the return of datetime_add: the constructor called with the new year and
\* month and the day and time of dt
add_return(dt, year, month) ==
    IF ValidDate(year, month, dt.day)
    THEN [tag |-> "datetime",
          value |-> datetime(year, month, dt.day, dt.hour, dt.minute,
                             dt.second, dt.microsecond)]
    ELSE ValueError("out of range")

\* the month and year as they would be with divmod(month, 12), the month
\* not made zero-based first
add_months_one_based(dt, years, months) ==
    add_return(dt, dt.year + years + ((dt.month + months) \div 12),
               (dt.month + months) % 12)

\* month = dt.month + months; div, month = divmod(month - 1, 12); month += 1;
\* year = dt.year + years + div
add_months(dt, years, months) ==
    add_return(dt, dt.year + years + ((dt.month + months - 1) \div 12),
               ((dt.month + months - 1) % 12) + 1)

\* datetime_add(dt, years, months, weeks, days) (the smaller units are never
\* passed by this program): the datetime as [tag |-> "datetime", value], or
\* the ValueError of the datetime constructor
datetime_add(dt, years, months, weeks, days) ==
    add_months(DtAdd(dt, timedelta(7 * weeks + days, 0, 0)), years, months)

\* ------------------------------------------------------------------- Query
\* Query.__init__: range(len(timelog))
InitWindow(lines) == [k \in 1..Len(lines) |-> k - 1]

\* the loop of Query.split on the window w: the final low and high, the cache,
\* the exception a probe raised (None if none), the indices parsed and the
\* <<low, new, high>> of every iteration
RECURSIVE split_loop(_, _, _, _, _, _, _, _)
\* if get(new) <= dt, g being what self.timelog[self.data[new]] did
split_compare(lines, w, dt, low, high, new, parsedSet, probes, g) ==
    IF g.err # None
    THEN [low |-> low, high |-> high, data |-> g.data, err |-> g.err,
          parsed |-> parsedSet \cup g.parsed, probes |-> probes]
    ELSE IF g.value[1] = EMPTY_LINE
    THEN [low |-> low, high |-> high, data |-> g.data, err |-> TypeError,
          parsed |-> parsedSet \cup g.parsed, probes |-> probes]
    ELSE IF DtLE(g.value[1].dt, dt)
    THEN split_loop(lines, g.data, w, dt, new, high, parsedSet \cup g.parsed,
                    probes)
    ELSE split_loop(lines, g.data, w, dt, low, new, parsedSet \cup g.parsed,
                    probes)

\* one iteration, new being int((low + high) / 2)
split_probe(lines, data, w, dt, low, high, new, parsedSet, probes) ==
    split_compare(lines, w, dt, low, high, new, parsedSet,
                  Append(probes, <<low, new, high>>),
                  getitem(lines, data, w[new + 1]))

\* the loop as it would be if it ran while high - low > 2
split_loop_early(lines, data, w, dt, low, high, parsedSet, probes) ==
    IF high - low > 2
    THEN split_probe(lines, data, w, dt, low, high, (low + high) \div 2,
                     parsedSet, probes)
    ELSE [low |-> low, high |-> high, data |-> data, err |-> None,
          parsed |-> parsedSet, probes |-> probes]

split_loop(lines, data, w, dt, low, high, parsedSet, probes) ==
    IF high - low > 1
    THEN split_probe(lines, data, w, dt, low, high, (low + high) \div 2,
                     parsedSet, probes)
    ELSE [low |-> low, high |-> high, data |-> data, err |-> None,
          parsed |-> parsedSet, probes |-> probes]

\* the end of split as it would be if the window were cut although a probe
\* raised
split_cut_on_error(w, after, r) ==
    [window |-> IF after THEN SliceFrom(w, r.high) ELSE SliceTo(w, r.high),
     data |-> r.data, err |-> r.err, parsed |-> r.parsed, probes |-> r.probes,
     exit |-> <<r.low, r.high>>]

\* the end of Query.split, r being what the loop did: the window after the
\* call (w itself when a probe raised), with the cache, exception, parsed
\* indices and probes, and the low and high the loop ended with
split_cut(w, after, r) ==
    [window |-> IF r.err # None THEN w
                ELSE IF after THEN SliceFrom(w, r.high)
                ELSE SliceTo(w, r.high),
     data |-> r.data, err |-> r.err, parsed |-> r.parsed, probes |-> r.probes,
     exit |-> <<r.low, r.high>>]

\* the end of split as it would be if before cut the window at the loop's low
split_cut_at_low(w, r) ==
    [window |-> IF r.err # None THEN w ELSE SliceTo(w, r.low),
     data |-> r.data, err |-> r.err, parsed |-> r.parsed, probes |-> r.probes,
     exit |-> <<r.low, r.high>>]

\* split as it would be if high started at len(self.data)
split_high_at_len(lines, data, w, dt, after) ==
    split_cut(w, after, split_loop(lines, data, w, dt, 0, Len(w), {}, <<>>))

\* Query.split(dt, after) on the window w
split(lines, data, w, dt, after) ==
    split_cut(w, after, split_loop(lines, data, w, dt, 0, Len(w) - 1, {}, <<>>))

before_at_low(lines, data, w, dt) ==
    split_cut_at_low(w, split_loop(lines, data, w, dt, 0, Len(w) - 1, {}, <<>>))

\* Query.before(dt)
before(lines, data, w, dt) == split(lines, data, w, dt, FALSE)

\* after as it would be if split sliced the whole index range of the log
\* instead of the current window
after_reset(lines, data, w, dt) ==
    split_cut(InitWindow(lines), TRUE,
              split_loop(lines, data, w, dt, 0, Len(w) - 1, {}, <<>>))

\* Query.after(dt)
after(lines, data, w, dt) == split(lines, data, w, dt, TRUE)

\* the body shared by Query.day, week, month and year: after(lo) followed by
\* before(hi), the second call not made when the first raises; lo and hi are
\* results of datetime_add, a and b what the two calls did
period_return(a, b) ==
    [b EXCEPT !.parsed = a.parsed \cup b.parsed, !.probes = a.probes \o b.probes]

period_before(lines, hi, a) ==
    IF a.err # None THEN a
    ELSE IF hi.tag = "ValueError" THEN [a EXCEPT !.err = hi]
    ELSE period_return(a, before(lines, a.data, a.window, hi.value))

period(lines, data, w, lo, hi) ==
    IF lo.tag = "ValueError"
    THEN [window |-> w, data |-> data, err |-> lo, parsed |-> {}, probes |-> <<>>,
          exit |-> <<>>]
    ELSE period_before(lines, hi, after(lines, data, w, lo.value))

\* date.weekday(): Monday is 0
weekday(d) == (Ordinal(d) + 6) % 7

\* Query.day(offset) when datetime.now() returns now
day(lines, data, w, now, offset) ==
    period(lines, data, w,
           datetime_add(datetime(now.year, now.month, now.day, 0, 0, 0, 0),
                        0, 0, 0, offset),
           datetime_add(datetime(now.year, now.month, now.day, 0, 0, 0, 0),
                        0, 0, 0, offset + 1))

\* Query.week(offset) when datetime.now() returns now
week(lines, data, w, now, offset) ==
    period(lines, data, w,
           datetime_add(datetime(now.year, now.month, now.day, 0, 0, 0, 0),
                        0, 0, offset, -weekday(now)),
           datetime_add(datetime(now.year, now.month, now.day, 0, 0, 0, 0),
                        0, 0, offset + 1, -weekday(now)))

\* Query.month(offset) when datetime.now() returns now
month(lines, data, w, now, offset) ==
    period(lines, data, w,
           datetime_add(datetime(now.year, now.month, 1, 0, 0, 0, 0),
                        0, offset, 0, 0),
           datetime_add(datetime(now.year, now.month, 1, 0, 0, 0, 0),
                        0, offset + 1, 0, 0))

\* Query.year(offset) when datetime.now() returns now
year(lines, data, w, now, offset) ==
    period(lines, data, w,
           datetime_add(datetime(now.year, 1, 1, 0, 0, 0, 0), offset, 0, 0, 0),
           datetime_add(datetime(now.year, 1, 1, 0, 0, 0, 0), offset + 1, 0, 0, 0))

\* Query.all() consumed to its end or to the first exception, from position k
\* of the window w on, g being what self.timelog[i] did
RECURSIVE all(_, _, _, _, _, _)
all_yield(lines, w, k, out, parsedSet, g) ==
    IF g.err # None
    THEN [data |-> g.data, value |-> out, err |-> g.err,
          parsed |-> parsedSet \cup g.parsed]
    ELSE all(lines, g.data, w, k + 1, out \o g.value, parsedSet \cup g.parsed)

all(lines, data, w, k, out, parsedSet) ==
    IF k > Len(w)
    THEN [data |-> data, value |-> out, err |-> None, parsed |-> parsedSet]
    ELSE all_yield(lines, w, k, out, parsedSet, getitem(lines, data, w[k]))

\* --------------------------------------------------------------- Extractor
\* '**' in comment
HasMarker(c) == \E k \in 1..(Len(c) - 1) : c[k] = "*" /\ c[k + 1] = "*"

\* the loop of Extractor.sum from position k of entries on, x and last being
\* the loop's variables and entry the item at k: the timedelta returned, or
\* the TypeError raised when an item that is EMPTY_LINE is subscripted
RECURSIVE sum_loop(_, _, _, _)
sum_body(entries, k, x, last, entry) ==
    IF last = None THEN sum_loop(entries, k + 1, x, entry)
    ELSE IF entry = EMPTY_LINE THEN [value |-> <<>>, err |-> TypeError]
    ELSE IF HasMarker(entry.comment) THEN sum_loop(entries, k + 1, x, entry)
    ELSE IF last = EMPTY_LINE THEN [value |-> <<>>, err |-> TypeError]
    ELSE sum_loop(entries, k + 1, DeltaAdd(x, DtSub(entry.dt, last.dt)), entry)

sum_loop(entries, k, x, last) ==
    IF k > Len(entries) THEN [value |-> <<x>>, err |-> None]
    ELSE sum_body(entries, k, x, last, entries[k])

\* sum as it would be if it added the gap of a marked entry as well
RECURSIVE sum_marked_loop(_, _, _, _)
sum_marked_body(entries, k, x, last, entry) ==
    IF last = None THEN sum_marked_loop(entries, k + 1, x, entry)
    ELSE IF entry = EMPTY_LINE \/ last = EMPTY_LINE
    THEN [value |-> <<>>, err |-> TypeError]
    ELSE sum_marked_loop(entries, k + 1, DeltaAdd(x, DtSub(entry.dt, last.dt)),
                         entry)

sum_marked_loop(entries, k, x, last) ==
    IF k > Len(entries) THEN [value |-> <<x>>, err |-> None]
    ELSE sum_marked_body(entries, k, x, last, entries[k])

sum_marked(entries) == sum_marked_loop(entries, 1, ZeroDelta, None)

\* sum as it would be if it assigned the gap (x = ...) instead of adding it
RECURSIVE sum_assign_loop(_, _, _, _)
sum_assign_body(entries, k, x, last, entry) ==
    IF last = None THEN sum_assign_loop(entries, k + 1, x, entry)
    ELSE IF entry = EMPTY_LINE THEN [value |-> <<>>, err |-> TypeError]
    ELSE IF HasMarker(entry.comment) THEN sum_assign_loop(entries, k + 1, x, entry)
    ELSE IF last = EMPTY_LINE THEN [value |-> <<>>, err |-> TypeError]
    ELSE sum_assign_loop(entries, k + 1, DtSub(entry.dt, last.dt), entry)

sum_assign_loop(entries, k, x, last) ==
    IF k > Len(entries) THEN [value |-> <<x>>, err |-> None]
    ELSE sum_assign_body(entries, k, x, last, entries[k])

sum_assign(entries) == sum_assign_loop(entries, 1, ZeroDelta, None)

\* Extractor.sum()
sum(entries) == sum_loop(entries, 1, ZeroDelta, None)

\* a dict is the tuple of its items [key, val] in the order of insertion
DictKeys(d) == {d[k].key : k \in 1..Len(d)}

DictGet(d, c) == d[CHOOSE k \in 1..Len(d) : d[k].key = c].val

\* d[c] += delta of a key c of d, and d[c] = delta
DictAdd(d, c, delta) ==
    [k \in 1..Len(d) |->
        IF d[k].key = c THEN [key |-> c, val |-> DeltaAdd(d[k].val, delta)] ELSE d[k]]

DictSet(d, c, delta) ==
    IF c \in DictKeys(d)
    THEN [k \in 1..Len(d) |-> IF d[k].key = c THEN [key |-> c, val |-> delta] ELSE d[k]]
    ELSE Append(d, [key |-> c, val |-> delta])

\* by_comment as it would be if a comment seen again replaced its bucket
RECURSIVE by_comment_replace_loop(_, _, _, _)
by_comment_replace_body(entries, k, d, last, entry) ==
    IF last = None THEN by_comment_replace_loop(entries, k + 1, d, entry)
    ELSE IF entry = EMPTY_LINE THEN [value |-> <<>>, err |-> TypeError]
    ELSE IF HasMarker(entry.comment)
    THEN by_comment_replace_loop(entries, k + 1, d, entry)
    ELSE IF last = EMPTY_LINE THEN [value |-> <<>>, err |-> TypeError]
    ELSE by_comment_replace_loop(entries, k + 1,
             DictSet(d, entry.comment, DtSub(entry.dt, last.dt)), entry)

by_comment_replace_loop(entries, k, d, last) ==
    IF k > Len(entries) THEN [value |-> d, err |-> None]
    ELSE by_comment_replace_body(entries, k, d, last, entries[k])

by_comment_replace(entries) == by_comment_replace_loop(entries, 1, <<>>, None)

\* the loop of Extractor.by_comment from position k of entries on, entry being
\* the item at k: the dict returned, or the TypeError raised
RECURSIVE by_comment_loop(_, _, _, _)
\* if entry['comment'] in d: d[...] += delta, else: d[...] = delta
by_comment_put(d, c, delta) ==
    IF c \in DictKeys(d) THEN DictAdd(d, c, delta) ELSE DictSet(d, c, delta)

\* the body as it would be if a marked entry did not become last
by_comment_body_keep_last(entries, k, d, last, entry) ==
    IF last = None THEN by_comment_loop(entries, k + 1, d, entry)
    ELSE IF entry = EMPTY_LINE THEN [value |-> <<>>, err |-> TypeError]
    ELSE IF HasMarker(entry.comment) THEN by_comment_loop(entries, k + 1, d, last)
    ELSE IF last = EMPTY_LINE THEN [value |-> <<>>, err |-> TypeError]
    ELSE by_comment_loop(entries, k + 1,
             by_comment_put(d, entry.comment, DtSub(entry.dt, last.dt)), entry)

by_comment_body(entries, k, d, last, entry) ==
    IF last = None THEN by_comment_loop(entries, k + 1, d, entry)
    ELSE IF entry = EMPTY_LINE THEN [value |-> <<>>, err |-> TypeError]
    ELSE IF HasMarker(entry.comment) THEN by_comment_loop(entries, k + 1, d, entry)
    ELSE IF last = EMPTY_LINE THEN [value |-> <<>>, err |-> TypeError]
    ELSE by_comment_loop(entries, k + 1,
             by_comment_put(d, entry.comment, DtSub(entry.dt, last.dt)), entry)

by_comment_loop(entries, k, d, last) ==
    IF k > Len(entries) THEN [value |-> d, err |-> None]
    ELSE by_comment_body(entries, k, d, last, entries[k])

\* Extractor.by_comment()
by_comment(entries) == by_comment_loop(entries, 1, <<>>, None)

\* ------------------------------------------------------------------- state
VARIABLES
    tl_src,    \* LazyTuple._src: the raw lines
    tl_data,   \* LazyTuple._data: the cache, None in the slots not parsed yet
    q_data,    \* Query.data of every Query: its window, a tuple of indices
    q_calls,   \* the calls made on every Query since it was built
    ex_data,   \* Extractor.data
    ret,       \* the last call: its arguments, the values it returned or
               \* yielded and the exception it raised, None if none
    parsed,    \* the indices the last call handed to parse
    raised     \* for every index, the last ParseError an access to it raised

vars == <<tl_src, tl_data, q_data, q_calls, ex_data, ret, parsed, raised>>

Return(op, arg, value, err) == [op |-> op, arg |-> arg, value |-> value, err |-> err]

\* the effect of a call on the lazy sequence: r carries data, err and parsed
Access(r) ==
    /\ tl_data' = r.data
    /\ parsed' = r.parsed
    /\ raised' = IF r.err # None /\ r.err.tag = "ParseError"
                 THEN [raised EXCEPT ![r.err.line + 1] = r.err]
                 ELSE raised

\* a call that reads the lazy sequence and changes no window, r being what it did
Read(op, arg, r) ==
    /\ Access(r)
    /\ ret' = Return(op, arg, r.value, r.err)
    /\ UNCHANGED <<tl_src, q_data, q_calls, ex_data>>

\* log[i] of the LazyTimelog
GetItem(i) == Read("getitem", <<i>>, getitem(tl_src, tl_data, i))

\* tuple(log): the iteration over the LazyTimelog
Iterate == Read("iter", <<>>, iter(tl_src, tl_data, 0, <<>>, {}))

\* a narrowing call as it would be if the window were shared by all Query
\* objects instead of being an attribute of each
Narrow_shared(q, op, arg, r) ==
    /\ Access(r)
    /\ q_data' = [p \in DOMAIN q_data |-> r.window]
    /\ q_calls' = [q_calls EXCEPT ![q] = Append(@,
                      [op |-> op, arg |-> arg, pre |-> q_data[q],
                       err |-> r.err, probes |-> r.probes, exit |-> r.exit])]
    /\ ret' = Return(op, <<q, arg>>, <<>>, r.err)
    /\ UNCHANGED <<tl_src, ex_data>>

\* a call of a narrowing method of Query q, r being what it did
Narrow(q, op, arg, r) ==
    /\ Access(r)
    /\ q_data' = [q_data EXCEPT ![q] = r.window]
    /\ q_calls' = [q_calls EXCEPT ![q] = Append(@,
                      [op |-> op, arg |-> arg, pre |-> q_data[q],
                       err |-> r.err, probes |-> r.probes, exit |-> r.exit])]
    /\ ret' = Return(op, <<q, arg>>, <<>>, r.err)
    /\ UNCHANGED <<tl_src, ex_data>>

Before(q, dt) == Narrow(q, "before", dt, before(tl_src, tl_data, q_data[q], dt))

After(q, dt) == Narrow(q, "after", dt, after(tl_src, tl_data, q_data[q], dt))

Day(q, now, offset) ==
    Narrow(q, "day", [now |-> now, offset |-> offset],
           day(tl_src, tl_data, q_data[q], now, offset))

Week(q, now, offset) ==
    Narrow(q, "week", [now |-> now, offset |-> offset],
           week(tl_src, tl_data, q_data[q], now, offset))

Month(q, now, offset) ==
    Narrow(q, "month", [now |-> now, offset |-> offset],
           month(tl_src, tl_data, q_data[q], now, offset))

Year(q, now, offset) ==
    Narrow(q, "year", [now |-> now, offset |-> offset],
           year(tl_src, tl_data, q_data[q], now, offset))

\* a call of datetime_add with years and months, r being what it did
Added(dt, years, months, r) ==
    /\ ret' = Return("datetime_add", <<dt, years, months>>,
                     IF r.tag = "datetime" THEN <<r.value>> ELSE <<>>,
                     IF r.tag = "datetime" THEN None ELSE r)
    /\ parsed' = {}
    /\ UNCHANGED <<tl_src, tl_data, q_data, q_calls, ex_data, raised>>

DatetimeAdd(dt, years, months) ==
    Added(dt, years, months, datetime_add(dt, years, months, 0, 0))

\* tuple(q.all())
All(q) == Read("all", <<q>>, all(tl_src, tl_data, q_data[q], 1, <<>>, {}))

\* a call on the Extractor, r being what it did
Computed(op, r) ==
    /\ ret' = Return(op, <<>>, r.value, r.err)
    /\ parsed' = {}
    /\ UNCHANGED <<tl_src, tl_data, q_data, q_calls, ex_data, raised>>

\* Extractor.sum() and Extractor.by_comment()
Sum == Computed("sum", sum(ex_data))

ByComment == Computed("by_comment", by_comment(ex_data))

\* ------------------------------------------------------------------ inputs
DigitChar == <<"0", "1", "2", "3", "4", "5", "6", "7", "8", "9">>

Fmt2(n) == <<DigitChar[(n \div 10) + 1], DigitChar[(n % 10) + 1]>>

\* the date and the timestamp of d as the log writes them
FmtDate(d) ==
    Fmt2(d.year \div 100) \o Fmt2(d.year % 100) \o <<"-">> \o Fmt2(d.month)
    \o <<"-">> \o Fmt2(d.day)

FmtStamp(d) == FmtDate(d) \o <<" ">> \o Fmt2(d.hour) \o <<":">> \o Fmt2(d.minute)

\* the raw line of timestamp d and comment c
Line(d, c) == FmtStamp(d) \o <<":", " ">> \o c

\* all tuples over S of length at most n, and the ascending ones
RECURSIVE Tuples(_, _)
Tuples(S, n) ==
    IF n = 0 THEN {<<>>}
    ELSE LET T == Tuples(S, n - 1)
         IN  T \cup {Append(t, x) : t \in {u \in T : Len(u) = n - 1}, x \in S}

\* ------------------------------------------------------------- timelog2csv
\* str.strip(): s without the whitespace at its ends
Whitespace == {" ", "\n", "\t", "\r"}

RECURSIVE StripLeft(_)
StripLeft(s) ==
    IF s # <<>> /\ Head(s) \in Whitespace THEN StripLeft(Tail(s)) ELSE s

RECURSIVE StripRight(_)
StripRight(s) ==
    IF s # <<>> /\ s[Len(s)] \in Whitespace
    THEN StripRight(SubSeq(s, 1, Len(s) - 1))
    ELSE s

strip(s) == StripRight(StripLeft(s))

\* l = [line.strip() for line in f.readlines() if line.strip()]
RECURSIVE readlines_stripped(_, _, _)
readlines_stripped(file, k, l) ==
    IF k > Len(file) THEN l
    ELSE IF strip(file[k]) # <<>>
    THEN readlines_stripped(file, k + 1, Append(l, strip(file[k])))
    ELSE readlines_stripped(file, k + 1, l)

\* day(entry): entry['dt'].strftime('%Y-%m-%d')
strftime_day(d) == FmtDate(d)

\* int(x.total_seconds() / 3600) of a timedelta x of whole seconds: int()
\* rounds towards zero
total_seconds(x) == x.days * 86400 + x.seconds

hours(x) ==
    IF total_seconds(x) >= 0 THEN total_seconds(x) \div 3600
    ELSE -((-total_seconds(x)) \div 3600)

\* the loop of timelog2csv over the lazy sequence of lines lines, from index
\* i on: x and last are the loop's variables, out the lines printed so far;
\* the result has the lines printed, the cache, the exception that ended the
\* loop (None if none) and the indices parsed
RECURSIVE csv_loop(_, _, _, _, _, _, _)
\* if '**' not in entry['comment']: x += entry['dt'] - last['dt']
csv_add(lines, data, i, x, last, entry, out, parsedSet) ==
    IF HasMarker(entry.comment)
    THEN csv_loop(lines, data, i + 1, x, entry, out, parsedSet)
    ELSE csv_loop(lines, data, i + 1, DeltaAdd(x, DtSub(entry.dt, last.dt)),
                  entry, out, parsedSet)

\* the body as it would be if the line printed carried the day of the new
\* entry
csv_body_new_day(lines, data, i, x, last, entry, out, parsedSet) ==
    IF last = None THEN csv_loop(lines, data, i + 1, x, entry, out, parsedSet)
    ELSE IF last = EMPTY_LINE \/ entry = EMPTY_LINE
    THEN [data |-> data, value |-> out, err |-> TypeError, parsed |-> parsedSet]
    ELSE IF strftime_day(last.dt) # strftime_day(entry.dt)
    THEN csv_add(lines, data, i, ZeroDelta, last, entry,
                 Append(out, [day |-> strftime_day(entry.dt), hours |-> hours(x)]),
                 parsedSet)
    ELSE csv_add(lines, data, i, x, last, entry, out, parsedSet)

\* the body of the loop for the entry at index i
csv_body(lines, data, i, x, last, entry, out, parsedSet) ==
    IF last = None THEN csv_loop(lines, data, i + 1, x, entry, out, parsedSet)
    ELSE IF last = EMPTY_LINE \/ entry = EMPTY_LINE
    THEN [data |-> data, value |-> out, err |-> TypeError, parsed |-> parsedSet]
    ELSE IF strftime_day(last.dt) # strftime_day(entry.dt)
    THEN csv_add(lines, data, i, ZeroDelta, last, entry,
                 Append(out, [day |-> strftime_day(last.dt), hours |-> hours(x)]),
                 parsedSet)
    ELSE csv_add(lines, data, i, x, last, entry, out, parsedSet)

\* for entry in ll, g being what ll[i] did
csv_next(lines, i, x, last, out, parsedSet, g) ==
    IF g.err # None
    THEN [data |-> g.data, value |-> out, err |-> g.err,
          parsed |-> parsedSet \cup g.parsed]
    ELSE csv_body(lines, g.data, i, x, last, g.value[1], out,
                  parsedSet \cup g.parsed)

csv_loop(lines, data, i, x, last, out, parsedSet) ==
    IF i >= Len(lines)
    THEN [data |-> data, value |-> out, err |-> None, parsed |-> parsedSet]
    ELSE csv_next(lines, i, x, last, out, parsedSet, getitem(lines, data, i))

\* timelog2csv() on the stripped lines l of the file
csv_lines(l) == csv_loop(l, InitData(l), 0, ZeroDelta, None, <<>>, {})

\* timelog2csv() when timelog.txt holds the lines file
timelog2csv(file) == csv_lines(readlines_stripped(file, 1, <<>>))

\* a run of timelog2csv on the lines file, l being the stripped lines its
\* LazyTimelog is built on and r what the loop did
Printed(file, l, r) ==
    /\ tl_src' = l
    /\ tl_data' = r.data
    /\ parsed' = r.parsed
    /\ raised' = [k \in 1..Len(l) |->
                    IF r.err # None /\ r.err.tag = "ParseError"
                       /\ r.err.line + 1 = k
                    THEN r.err ELSE None]
    /\ ret' = Return("timelog2csv", <<file>>, r.value, r.err)
    /\ UNCHANGED <<q_data, q_calls, ex_data>>

Timelog2Csv(file) ==
    Printed(file, readlines_stripped(file, 1, <<>>), timelog2csv(file))

\* timestamps on both sides of the month and year boundaries
T0 == datetime(2023, 12, 31, 23, 59, 0, 0)

T1 == datetime(2024, 1, 1, 0, 0, 0, 0)

T2 == datetime(2024, 1, 31, 23, 59, 0, 0)

T3 == datetime(2024, 2, 1, 0, 0, 0, 0)

T4 == datetime(2024, 12, 31, 23, 59, 0, 0)

T5 == datetime(2025, 1, 1, 0, 0, 0, 0)

Work == <<"w", "o", "r", "k">>

Lunch == <<"l", "u", "n", "c", "h", " ", "*", "*">>

Mail == <<"m", "a", "i", "l">>

\* lines that do not parse: no separator, a day the month does not have, a
\* minute that is none
NoSeparator == <<"w", "o", "r", "k">>

BadDate == Line(datetime(2024, 2, 30, 10, 0, 0, 0), Work)

BadMinute == Line(datetime(2024, 1, 1, 10, 60, 0, 0), Work)

MalformedLines == {NoSeparator, BadDate, BadMinute}

\* the lines of the lazy sequence specification
LazyLines == {Line(T1, Work), <<>>} \cup MalformedLines

\* the lines and the cutoffs of the range query specification
QueryLines == {Line(T1, Work), Line(T2, Work), Line(T3, Work)}

Cutoffs == {T0, T1, T3, T4}

\* the lines and cutoffs of the specification of composed queries
ComposeLines == {Line(T2, Work), Line(T3, Work)}

ComposeCutoffs == {T0, T1, T3, T4}

\* the lines, clock readings and offsets of the calendar specification
CalendarLines == {Line(T0, Work), Line(T1, Work), Line(T2, Work), Line(T3, Work)}

Nows == {datetime(2024, 1, 15, 10, 30, 20, 5), datetime(2023, 12, 31, 23, 59, 59, 0)}

Offsets == {-1, 0, 1}

\* the lines the Extractor's entries are parsed from
ExtractorLines ==
    {Line(datetime(2024, 1, 1, 9, 0, 0, 0), Work),
     Line(datetime(2024, 1, 1, 12, 0, 0, 0), Work),
     Line(datetime(2024, 1, 1, 12, 30, 0, 0), Lunch),
     Line(datetime(2024, 1, 1, 17, 0, 0, 0), Work),
     Line(datetime(2024, 1, 2, 8, 15, 0, 0), Mail),
     <<>>}

\* ---------------------------------------------------------- specifications
\* a LazyTimelog over lines, with the Query objects of Q built on it
Built(lines, Q) ==
    /\ tl_src = lines
    /\ tl_data = InitData(lines)
    /\ q_data = [q \in Q |-> InitWindow(lines)]
    /\ q_calls = [q \in Q |-> <<>>]
    /\ ex_data = <<>>
    /\ ret = Return("init", <<>>, <<>>, None)
    /\ parsed = {}
    /\ raised = [k \in 1..Len(lines) |-> None]

\* indexed access to and iteration over a LazyTimelog
InitLazy == \E lines \in Tuples(LazyLines, MaxLenLazy) : Built(lines, {})

NextLazy ==
    \/ \E i \in 0..(Len(tl_src) - 1) : GetItem(i)
    \/ Iterate

SpecLazy == InitLazy /\ [][NextLazy]_vars

\* before, after and all on one Query
Init == \E lines \in Tuples(QueryLines, MaxLen) : Built(lines, {1})

Next ==
    \/ \E q \in DOMAIN q_data, dt \in Cutoffs :
          Len(q_calls[q]) < MaxCalls /\ Before(q, dt)
    \/ \E q \in DOMAIN q_data, dt \in Cutoffs :
          Len(q_calls[q]) < MaxCalls /\ After(q, dt)
    \/ \E q \in DOMAIN q_data : All(q)

Spec == Init /\ [][Next]_vars

\* longer chains of before and after on one Query over an ascending log
InitCompose == \E lines \in Tuples(ComposeLines, MaxLenCompose) : Built(lines, {1})

NextCompose ==
    \/ \E q \in DOMAIN q_data, dt \in ComposeCutoffs :
          Len(q_calls[q]) < MaxCallsCompose /\ Before(q, dt)
    \/ \E q \in DOMAIN q_data, dt \in ComposeCutoffs :
          Len(q_calls[q]) < MaxCallsCompose /\ After(q, dt)

SpecCompose == InitCompose /\ [][NextCompose]_vars

\* the calendar helpers on one Query
InitCalendar == \E lines \in Tuples(CalendarLines, MaxLenCalendar) : Built(lines, {1})

NextCalendar ==
    \/ \E q \in DOMAIN q_data, now \in Nows, offset \in Offsets :
          Len(q_calls[q]) < MaxCalls /\ Month(q, now, offset)
    \/ \E q \in DOMAIN q_data, now \in Nows, offset \in Offsets :
          Len(q_calls[q]) < MaxCalls /\ Year(q, now, offset)
    \/ \E q \in DOMAIN q_data : All(q)

SpecCalendar == InitCalendar /\ [][NextCalendar]_vars

\* an Extractor built from the iteration over a LazyTimelog, r being what
\* the iteration did
Extracted(lines, r) ==
    /\ tl_src = lines
    /\ tl_data = r.data
    /\ q_data = [q \in {} |-> <<>>]
    /\ q_calls = [q \in {} |-> <<>>]
    /\ ex_data = r.value
    /\ ret = Return("init", <<>>, <<>>, None)
    /\ parsed = r.parsed
    /\ raised = [k \in 1..Len(lines) |-> None]

InitExtractor ==
    \E lines \in Tuples(ExtractorLines, MaxEntries) :
        Extracted(lines, iter(lines, InitData(lines), 0, <<>>, {}))

NextExtractor == Sum \/ ByComment

SpecExtractor == InitExtractor /\ [][NextExtractor]_vars

\* the lines and cutoffs of the specification of two Query objects over one
\* lazy sequence
SharedLines == {Line(T1, Work), Line(T3, Work), NoSeparator}

SharedCutoffs == {T2}

\* before, after and all on two Query objects built over the same LazyTimelog
InitShared == \E lines \in Tuples(SharedLines, MaxLenShared) : Built(lines, {1, 2})

NextShared ==
    \/ \E q \in DOMAIN q_data, dt \in SharedCutoffs :
          Len(q_calls[q]) < MaxCallsShared /\ Before(q, dt)
    \/ \E q \in DOMAIN q_data, dt \in SharedCutoffs :
          Len(q_calls[q]) < MaxCallsShared /\ After(q, dt)
    \/ \E q \in DOMAIN q_data : All(q)

SpecShared == InitShared /\ [][NextShared]_vars

\* the lines of the specification of all narrowing methods
WindowLines == {Line(T0, Work), Line(T3, Work), NoSeparator}

WindowCutoffs == {T1}

WindowOffsets == {0}

\* the clock reading and the offsets of the calendar helpers in it
NewYearsEve == {datetime(2023, 12, 31, 23, 59, 59, 0)}

NearOffsets == {0, 1}

\* every narrowing method of one Query, in any order
InitWindowed == \E lines \in Tuples(WindowLines, MaxLenWindow) : Built(lines, {1})

NextWindowed ==
    \/ \E q \in DOMAIN q_data, dt \in WindowCutoffs :
          Len(q_calls[q]) < MaxCallsWindow /\ Before(q, dt)
    \/ \E q \in DOMAIN q_data, dt \in WindowCutoffs :
          Len(q_calls[q]) < MaxCallsWindow /\ After(q, dt)
    \/ \E q \in DOMAIN q_data, now \in NewYearsEve, offset \in WindowOffsets :
          Len(q_calls[q]) < MaxCallsWindow /\ Day(q, now, offset)
    \/ \E q \in DOMAIN q_data, now \in NewYearsEve, offset \in WindowOffsets :
          Len(q_calls[q]) < MaxCallsWindow /\ Week(q, now, offset)
    \/ \E q \in DOMAIN q_data, now \in NewYearsEve, offset \in WindowOffsets :
          Len(q_calls[q]) < MaxCallsWindow /\ Month(q, now, offset)
    \/ \E q \in DOMAIN q_data, now \in NewYearsEve, offset \in WindowOffsets :
          Len(q_calls[q]) < MaxCallsWindow /\ Year(q, now, offset)

SpecWindowed == InitWindowed /\ [][NextWindowed]_vars

\* the base dates and offsets of the specification of datetime_add: the last
\* days of months, a leap day, both ends of a year and the first year
AddBases ==
    {datetime(2024, 1, 31, 10, 30, 20, 5), datetime(2024, 2, 29, 0, 0, 0, 0),
     datetime(2023, 12, 15, 23, 59, 59, 999999), datetime(1, 1, 15, 8, 0, 0, 0)}

MonthsAdded == (-MaxMonthsAdded)..MaxMonthsAdded

YearsAdded == (-MaxYearsAdded)..MaxYearsAdded

\* calls of datetime_add
InitAdd == Built(<<>>, {})

NextAdd ==
    \E dt \in AddBases, years \in YearsAdded, months \in MonthsAdded :
        DatetimeAdd(dt, years, months)

SpecAdd == InitAdd /\ [][NextAdd]_vars

\* the lines of the specification of failing probes: an entry, a line that
\* does not parse and an empty line
FailingLines == {Line(T1, Work), NoSeparator, <<>>}

FailingCutoffs == {T2}

\* before, after, day and month on one Query over a log with lines no search
\* can compare
InitFailing == \E lines \in Tuples(FailingLines, MaxLenFailing) : Built(lines, {1})

NextFailing ==
    \/ \E q \in DOMAIN q_data, dt \in FailingCutoffs :
          Len(q_calls[q]) < MaxCallsFailing /\ Before(q, dt)
    \/ \E q \in DOMAIN q_data, dt \in FailingCutoffs :
          Len(q_calls[q]) < MaxCallsFailing /\ After(q, dt)
    \/ \E q \in DOMAIN q_data, now \in NewYearsEve, offset \in NearOffsets :
          Len(q_calls[q]) < MaxCallsFailing /\ Day(q, now, offset)
    \/ \E q \in DOMAIN q_data, now \in NewYearsEve, offset \in NearOffsets :
          Len(q_calls[q]) < MaxCallsFailing /\ Month(q, now, offset)

SpecFailing == InitFailing /\ [][NextFailing]_vars

\* the lines of timelog.txt in the specification of timelog2csv, as readlines
\* returns them: entries of three days, one of them marked, an empty line, a
\* line of blanks and a line that does not parse
Raw(s) == s \o <<"\n">>

CsvLines ==
    {Raw(Line(datetime(2024, 1, 1, 9, 0, 0, 0), Work)),
     Raw(Line(datetime(2024, 1, 1, 17, 0, 0, 0), Work)),
     Raw(<<" ">> \o Line(datetime(2024, 1, 2, 8, 15, 0, 0), Lunch)),
     Raw(Line(datetime(2024, 1, 3, 10, 0, 0, 0), Mail)),
     Raw(<<>>), Raw(<<" ", " ">>), Raw(NoSeparator)}

\* one run of timelog2csv, the whole of a run of the program
InitCsv == Built(<<>>, {})

NextCsv ==
    \E file \in Tuples(CsvLines, MaxLenCsv) : ret.op = "init" /\ Timelog2Csv(file)

SpecCsv == InitCsv /\ [][NextCsv]_vars

\* ------------------------------------------------------------------ claims
\* the last call made on Query q
LastCall(q) == q_calls[q][Len(q_calls[q])]

Called(q, op) ==
    /\ Len(q_calls[q]) > 0
    /\ LastCall(q).op = op
    /\ LastCall(q).err = None

\* the entries of the lines a window w points to
EntriesOf(w) == [k \in 1..Len(w) |-> parse(tl_src, w[k])]

\* the window w points to entries in ascending order of timestamp
Ascending(w) ==
    \A j, k \in 1..Len(w) : j < k => DtLE(EntriesOf(w)[j].dt, EntriesOf(w)[k].dt)

\* the items of the tuple s
Range(s) == {s[k] : k \in 1..Len(s)}

\* the entries of e stamped at or after dt, and those stamped before dt
AtOrAfter(e, dt) == LET Keep(x) == DtLE(dt, x.dt) IN SelectSeq(e, Keep)

StrictlyBefore(e, dt) == LET Keep(x) == DtLT(x.dt, dt) IN SelectSeq(e, Keep)

\* all() of q has just been consumed, and the last call made on q was op
AllAfterCall(q, op) ==
    ret.op = "all" /\ ret.arg = <<q>> /\ ret.err = None /\ Called(q, op)

\* C1: after(cutoff) followed by all() on a window in ascending order yields
\* exactly the entries of that window stamped at or after the cutoff
C1_AfterKeepsAtOrAfter ==
    \A q \in DOMAIN q_data :
        (AllAfterCall(q, "after") /\ Ascending(LastCall(q).pre))
        => ret.value = AtOrAfter(EntriesOf(LastCall(q).pre), LastCall(q).arg)

\* C2: before(cutoff) followed by all() on a window in ascending order yields
\* exactly the entries of that window stamped strictly before the cutoff
C2_BeforeKeepsStrictlyBefore ==
    \A q \in DOMAIN q_data :
        (AllAfterCall(q, "before") /\ Ascending(LastCall(q).pre))
        => ret.value = StrictlyBefore(EntriesOf(LastCall(q).pre), LastCall(q).arg)

\* the two windows before(t) and after(t) make of the window the last call of q
\* found: the one the call made, the other as the other method makes it
BeforePart(q) ==
    IF LastCall(q).op = "before" THEN q_data[q]
    ELSE before(tl_src, tl_data, LastCall(q).pre, LastCall(q).arg).window

AfterPart(q) ==
    IF LastCall(q).op = "after" THEN q_data[q]
    ELSE after(tl_src, tl_data, LastCall(q).pre, LastCall(q).arg).window

\* C3: before(t) and after(t) of one window share no index, and the
\* before-part followed by the after-part is the window
C3_SplitPartitions ==
    \A q \in DOMAIN q_data :
        (Called(q, "before") \/ Called(q, "after"))
        => /\ Range(BeforePart(q)) \cap Range(AfterPart(q)) = {}
           /\ BeforePart(q) \o AfterPart(q) = LastCall(q).pre

C3_Witness ==
    \E q \in DOMAIN q_data :
        /\ Called(q, "before")
        /\ Len(LastCall(q).pre) >= 3
        /\ Len(LastCall(q).probes) >= 1
        /\ BeforePart(q) # <<>>
        /\ AfterPart(q) # <<>>

\* the first instant of the month of now, and of the month after it
FirstOfMonth(now) == datetime(now.year, now.month, 1, 0, 0, 0, 0)

FirstOfNextMonth(now) ==
    IF now.month = 12 THEN datetime(now.year + 1, 1, 1, 0, 0, 0, 0)
    ELSE datetime(now.year, now.month + 1, 1, 0, 0, 0, 0)

\* the entries of e stamped in the half-open range from lo to hi
Within(e, lo, hi) ==
    LET Keep(x) == DtLE(lo, x.dt) /\ DtLT(x.dt, hi) IN SelectSeq(e, Keep)

\* C4: month(offset=0) on the full window of an ascending log leaves exactly
\* the entries stamped from the first instant of this month up to, and not
\* including, the first instant of the next month
C4_MonthIsHalfOpen ==
    \A q \in DOMAIN q_data :
        (/\ AllAfterCall(q, "month")
         /\ Len(q_calls[q]) = 1
         /\ LastCall(q).arg.offset = 0
         /\ Ascending(LastCall(q).pre))
        => ret.value = Within(EntriesOf(LastCall(q).pre),
                              FirstOfMonth(LastCall(q).arg.now),
                              FirstOfNextMonth(LastCall(q).arg.now))

\* the calls of q are after(a), before(b), after(c), before(d), none raising,
\* the first on the full window of a log in ascending order
ComposedTwice(q) ==
    /\ Len(q_calls[q]) = 4
    /\ \A k \in 1..4 : q_calls[q][k].err = None
    /\ q_calls[q][1].op = "after" /\ q_calls[q][2].op = "before"
    /\ q_calls[q][3].op = "after" /\ q_calls[q][4].op = "before"
    /\ Ascending(q_calls[q][1].pre)

\* the ranges from a to b and from c to d of these calls share no instant
DisjointRanges(q) ==
    LET a == q_calls[q][1].arg
        b == q_calls[q][2].arg
        c == q_calls[q][3].arg
        d == q_calls[q][4].arg
    IN  /\ DtLT(a, b)
        /\ DtLT(c, d)
        /\ (DtLE(b, c) \/ DtLE(d, a))

\* C5: after(a); before(b); after(c); before(d) with disjoint ranges leaves the
\* window empty
C5_DisjointRangesEmpty ==
    \A q \in DOMAIN q_data :
        (ComposedTwice(q) /\ DisjointRanges(q)) => q_data[q] = <<>>

\* every item of the tuple e is an entry (none is EMPTY_LINE)
IsEntries(e) == \A k \in 1..Len(e) : e[k].tag = "entry"

\* the entries of e are in chronological order, and none is marked
Chronological(e) == \A j, k \in 1..Len(e) : j < k => DtLE(e[j].dt, e[k].dt)

NoMarkers(e) == \A k \in 1..Len(e) : ~HasMarker(e[k].comment)

\* the gap between entry k of e and the entry before it, and the sum of the
\* gaps of the positions in K
Gap(e, k) == DtSub(e[k].dt, e[k - 1].dt)

RECURSIVE SumGaps(_, _)
SumGaps(e, K) ==
    IF K = {} THEN ZeroDelta
    ELSE LET k == CHOOSE j \in K : TRUE
         IN  DeltaAdd(Gap(e, k), SumGaps(e, K \ {k}))

\* the positions of e that end a pair and carry no marker
UnmarkedPairs(e) == {k \in 2..Len(e) : ~HasMarker(e[k].comment)}

\* the sum of the values of the items of the dict d
RECURSIVE TotalOf(_)
TotalOf(d) == IF d = <<>> THEN ZeroDelta ELSE DeltaAdd(d[1].val, TotalOf(Tail(d)))

\* the example of four entries: work, work, lunch **, work
Example ==
    <<Entry(datetime(2024, 1, 1, 9, 0, 0, 0), Work),
      Entry(datetime(2024, 1, 1, 12, 0, 0, 0), Work),
      Entry(datetime(2024, 1, 1, 12, 30, 0, 0), Lunch),
      Entry(datetime(2024, 1, 1, 17, 0, 0, 0), Work)>>

SevenThirty == timedelta(0, 7 * 3600 + 30 * 60, 0)

\* C6: sum() of chronological entries without markers is the last timestamp
\* minus the first, and zero for no entries
C6_SumTelescopes ==
    (ret.op = "sum" /\ IsEntries(ex_data) /\ Chronological(ex_data)
        /\ NoMarkers(ex_data))
    => /\ ret.err = None
       /\ ret.value = IF ex_data = <<>> THEN <<ZeroDelta>>
                      ELSE <<DtSub(ex_data[Len(ex_data)].dt, ex_data[1].dt)>>

C6_Witness ==
    /\ ret.op = "sum" /\ IsEntries(ex_data) /\ NoMarkers(ex_data)
    /\ Len(ex_data) >= 3
    /\ \A k \in 2..Len(ex_data) : DtLT(ex_data[k - 1].dt, ex_data[k].dt)
    /\ ret.value = <<DtSub(ex_data[Len(ex_data)].dt, ex_data[1].dt)>>

\* C7: sum() is the sum of the gaps of the pairs whose later entry is not
\* marked, each gap measured from the entry right before, marked or not; the
\* buckets of by_comment() add up to the same, and no bucket is marked
C7_MarkedPairsExcluded ==
    IsEntries(ex_data)
    => /\ (ret.op = "sum")
          => (/\ ret.err = None
              /\ ret.value = <<SumGaps(ex_data, UnmarkedPairs(ex_data))>>)
       /\ (ret.op = "by_comment")
          => (/\ ret.err = None
              /\ TotalOf(ret.value) = SumGaps(ex_data, UnmarkedPairs(ex_data))
              /\ \A c \in DictKeys(ret.value) : ~HasMarker(c))

C7_Witness ==
    /\ ret.op = "sum"
    /\ ex_data = Example
    /\ ret.value = <<SevenThirty>>

\* C8: by_comment() has one key for every unmarked comment that is the later
\* entry of a pair, and no other, and maps it to the sum of the gaps of the
\* pairs that end in it
C8_BucketsByLaterComment ==
    (ret.op = "by_comment" /\ IsEntries(ex_data))
    => /\ ret.err = None
       /\ DictKeys(ret.value) = {ex_data[k].comment : k \in UnmarkedPairs(ex_data)}
       /\ Cardinality(DictKeys(ret.value)) = Len(ret.value)
       /\ \A c \in DictKeys(ret.value) :
             DictGet(ret.value, c)
               = SumGaps(ex_data,
                         {k \in UnmarkedPairs(ex_data) : ex_data[k].comment = c})

C8_Witness ==
    /\ ret.op = "by_comment"
    /\ ex_data = Example
    /\ ret.value = <<[key |-> Work, val |-> SevenThirty]>>

\* slot k of the cache is populated
Populated(k) == tl_data[k] # None

\* C9: a populated cache slot is never changed and its index never parsed
\* again; an access to it returns the value stored; and a parse that succeeds
\* populates the slot, so that it is the only one of its index
C9_CacheIsWriteOnce ==
    [][\A k \in 1..Len(tl_src) :
         /\ Populated(k)
            => /\ tl_data'[k] = tl_data[k]
               /\ (k - 1) \notin parsed'
               /\ (ret'.op = "getitem" /\ ret'.arg = <<k - 1>>)
                  => (ret'.err = None /\ ret'.value = <<tl_data[k]>>)
               /\ (ret'.op = "iter" /\ Len(ret'.value) >= k)
                  => ret'.value[k] = tl_data[k]
         /\ ((k - 1) \in parsed' /\ tl_src[k] \notin MalformedLines)
            => (tl_data'[k] # None /\ tl_data'[k].tag \in {"entry", "EMPTY_LINE"})
      ]_vars

\* an access has just found its slot populated, an entry and a blank being cached
C9_Witness ==
    /\ ret.op = "getitem"
    /\ parsed = {}
    /\ ret.err = None
    /\ ret.value = <<tl_data[ret.arg[1] + 1]>>
    /\ \E k \in 1..Len(tl_src) : tl_data[k] = EMPTY_LINE
    /\ \E k \in 1..Len(tl_src) : tl_data[k] # None /\ tl_data[k].tag = "entry"

\* C10: an indexed access to a malformed line raises a ParseError that carries
\* the index, changes no slot of the cache and leaves the slot of the index
\* empty; the error is the one the last failed access to the index raised
C10_FailureIsNotCached ==
    [][\A i \in 0..(Len(tl_src) - 1) :
         (ret'.op = "getitem" /\ ret'.arg = <<i>> /\ tl_src[i + 1] \in MalformedLines)
         => /\ ret'.err # None
            /\ ret'.err.tag = "ParseError"
            /\ ret'.err.line = i
            /\ ret'.value = <<>>
            /\ tl_data' = tl_data
            /\ tl_data'[i + 1] = None
            /\ i \in parsed'
            /\ raised[i + 1] # None => ret'.err = raised[i + 1]
      ]_vars

\* an access to a malformed line has just failed, next to a populated slot
C10_Witness ==
    /\ ret.op = "getitem"
    /\ ret.err # None
    /\ ret.err.tag = "ParseError"
    /\ ret.err.line = ret.arg[1]
    /\ ret.arg[1] >= 1
    /\ tl_src[ret.arg[1] + 1] \in MalformedLines
    /\ tl_data[ret.arg[1] + 1] = None
    /\ \E k \in 1..Len(tl_src) : tl_data[k] # None

\* the cache of a copy of the log parsed eagerly: every line that parses is
\* in its slot, v being what parse made of a line
EagerSlot(v) == IF v.tag = "ParseError" THEN None ELSE v

RECURSIVE EagerFrom(_, _, _)
EagerFrom(lines, k, data) ==
    IF k > Len(lines) THEN data
    ELSE EagerFrom(lines, k + 1, Append(data, EagerSlot(parse(lines, k - 1))))

Eager(lines) == EagerFrom(lines, 1, <<>>)

\* the calls calls, from call k on, made on a Query of its own with window w
\* over a log of its own with cache data: the final window and the exception
\* of every call, r being what call k did
RECURSIVE Alone(_, _, _, _, _, _)
AloneNext(lines, calls, k, errs, r) ==
    Alone(lines, r.data, r.window, calls, k + 1, Append(errs, r.err))

Alone(lines, data, w, calls, k, errs) ==
    IF k > Len(calls) THEN [window |-> w, data |-> data, errs |-> errs]
    ELSE AloneNext(lines, calls, k, errs,
                   split(lines, data, w, calls[k].arg, calls[k].op = "after"))

\* the window and exceptions of Query q agree with those of run, and so does
\* an all() just consumed on q
AgreesWith(q, run) ==
    /\ q_data[q] = run.window
    /\ [k \in 1..Len(q_calls[q]) |-> q_calls[q][k].err] = run.errs
    /\ (ret.op = "all" /\ ret.arg = <<q>>)
       => /\ ret.value = all(tl_src, run.data, run.window, 1, <<>>, {}).value
          /\ ret.err = all(tl_src, run.data, run.window, 1, <<>>, {}).err

\* every Query agrees with its calls made alone on a copy of the log whose
\* cache is eager, and on one whose cache is empty
AgreesAlone(eager) ==
    \A q \in DOMAIN q_data :
        /\ AgreesWith(q, Alone(tl_src, eager, InitWindow(tl_src), q_calls[q],
                               1, <<>>))
        /\ AgreesWith(q, Alone(tl_src, InitData(tl_src), InitWindow(tl_src),
                               q_calls[q], 1, <<>>))

\* C11: whatever the interleaving of before, after and all on two Query
\* objects over one lazy sequence, the window of each, the exception of each
\* of its calls and its all() output are those of the same calls made alone
\* on a fresh copy of the log, eagerly parsed or not parsed at all: the fill
\* state of the shared cache and the calls on the other Query change nothing
C11_SharedCacheIsTransparent == AgreesAlone(Eager(tl_src))

\* both objects have narrowed to different windows, the second on a cache
\* the first had filled, and all() of the first has just been consumed
C11_Witness ==
    /\ DOMAIN q_data = {1, 2}
    /\ Called(1, "after") /\ Called(2, "before")
    /\ q_data[1] # q_data[2] /\ q_data[1] # <<>>
    /\ LastCall(1).probes # <<>> /\ LastCall(2).probes # <<>>
    /\ ret.op = "all" /\ ret.arg = <<1>> /\ ret.err = None
    /\ \E k \in 1..Len(tl_data) : tl_data[k] # None

\* the entries e without the Blank values, and e has a Blank value between
\* two timestamped entries
WithoutBlanks(e) == LET Keep(x) == x # EMPTY_LINE IN SelectSeq(e, Keep)

BlankBetween(e) ==
    \E j, k, l \in 1..Len(e) :
        /\ j < k /\ k < l
        /\ e[j] # EMPTY_LINE /\ e[k] = EMPTY_LINE /\ e[l] # EMPTY_LINE

\* C12: on a sequence with a Blank value between timestamped entries, sum()
\* and by_comment() complete and return what they return on the sequence
\* without the Blank values
C12_BlankIsNoBoundary ==
    BlankBetween(ex_data)
    => /\ ret.op = "sum"
          => ret.err = None /\ ret.value = sum(WithoutBlanks(ex_data)).value
       /\ ret.op = "by_comment"
          => /\ ret.err = None
             /\ ret.value = by_comment(WithoutBlanks(ex_data)).value

\* the window of q after its call k: the window the next call found, or the
\* current one
WindowAfter(q, k) ==
    IF k < Len(q_calls[q]) THEN q_calls[q][k + 1].pre ELSE q_data[q]

\* w is a contiguous ascending range of indices of the log
ContiguousRange(w) ==
    /\ \A k \in 1..Len(w) : w[k] \in 0..(Len(tl_src) - 1)
    /\ \A k \in 1..(Len(w) - 1) : w[k + 1] = w[k] + 1

\* v is a run of consecutive items of w
SubRange(v, w) == \E a \in 1..(Len(w) + 1), b \in 0..Len(w) : v = SubSeq(w, a, b)

\* C13: after any sequence of before, after, day, week, month and year calls
\* the window is a contiguous ascending range of indices inside [0, length),
\* and the window after each call is a sub-range of the window before it
C13_WindowOnlyNarrows ==
    \A q \in DOMAIN q_data :
        /\ ContiguousRange(q_data[q])
        /\ \A k \in 1..Len(q_calls[q]) :
              /\ ContiguousRange(q_calls[q][k].pre)
              /\ SubRange(WindowAfter(q, k), q_calls[q][k].pre)

\* two calls have each cut the window, the second one on both sides, and
\* something is left
C13_Witness ==
    /\ Len(q_calls[1]) = 2
    /\ q_calls[1][1].pre # q_calls[1][2].pre
    /\ q_calls[1][2].op \in {"day", "week", "month", "year"}
    /\ q_calls[1][2].err = None
    /\ q_data[1] # <<>>
    /\ Len(q_data[1]) < Len(q_calls[1][2].pre)
\* the low, midpoint and high of a probe, and the distance the loop has left
\* at it
Distance(p) == p[3] - p[1]

\* C14: on a window of any length n and for every cutoff the loop of split
\* ends: at every iteration 0 <= low < midpoint < high <= n - 1, high - low
\* is smaller than at the iteration before, and the loop is left with
\* high - low <= 1 after fewer than max(n, 1) iterations
C14_SplitLoopTerminates ==
    \A q \in DOMAIN q_data : \A k \in 1..Len(q_calls[q]) :
        LET c == q_calls[q][k]
            n == Len(c.pre)
        IN  /\ \A i \in 1..Len(c.probes) :
                  /\ 0 <= c.probes[i][1] /\ c.probes[i][1] < c.probes[i][2]
                  /\ c.probes[i][2] < c.probes[i][3] /\ c.probes[i][3] <= n - 1
            /\ \A i \in 1..(Len(c.probes) - 1) :
                  Distance(c.probes[i + 1]) < Distance(c.probes[i])
            /\ (c.probes # <<>> /\ c.err = None)
               => Distance(<<c.exit[1], 0, c.exit[2]>>)
                    < Distance(c.probes[Len(c.probes)])
            /\ c.err = None => c.exit[2] - c.exit[1] <= 1
            /\ Len(c.probes) <= n /\ (n > 0 => Len(c.probes) < n)

\* a search of two iterations has ended, and after it one of one iteration
\* on the window it left
C14_Witness ==
    /\ Len(q_calls[1]) = 2
    /\ Len(q_calls[1][1].probes) = 2 /\ q_calls[1][1].err = None
    /\ Len(q_calls[1][2].probes) = 1 /\ q_calls[1][2].err = None
\* call k of q was a before or an after on a window of at most one index
SmallSplit(q, k) ==
    /\ q_calls[q][k].op \in {"before", "after"}
    /\ Len(q_calls[q][k].pre) <= 1

\* C15: on a window of size 0 or 1 split makes no iteration, parses nothing,
\* raises nothing and cuts at the initial high, length - 1: after leaves the
\* window as it is and before leaves the empty window, whatever the cutoff
C15_SmallWindowsSkipTheSearch ==
    \A q \in DOMAIN q_data : \A k \in 1..Len(q_calls[q]) :
        SmallSplit(q, k)
        => /\ q_calls[q][k].probes = <<>>
           /\ q_calls[q][k].err = None
           /\ q_calls[q][k].exit = <<0, Len(q_calls[q][k].pre) - 1>>
           /\ WindowAfter(q, k) = IF q_calls[q][k].op = "after"
                                  THEN q_calls[q][k].pre ELSE <<>>
           /\ (k = Len(q_calls[q]) /\ ret.op \in {"before", "after"}
               /\ ret.arg[1] = q)
              => parsed = {}

\* after has just kept the one line of a window, a line that does not parse
\* and is past no cutoff, and before had emptied the other Query's window of
\* one line
C15_Witness ==
    /\ DOMAIN q_data = {1, 2}
    /\ Len(q_calls[1]) > 0 /\ Len(q_calls[2]) > 0
    /\ SmallSplit(1, Len(q_calls[1])) /\ SmallSplit(2, Len(q_calls[2]))
    /\ LastCall(1).op = "after" /\ Len(LastCall(1).pre) = 1
    /\ parse(tl_src, LastCall(1).pre[1]).tag = "ParseError"
    /\ LastCall(2).op = "before" /\ Len(LastCall(2).pre) = 1
    /\ ret.op = "after"
\* the months since year 0 of the date a call of datetime_add is to reach:
\* 12 * (y + j) + (m - 1) + k for the base's year y and month m
MonthsOfTarget == 12 * (ret.arg[1].year + ret.arg[2]) + (ret.arg[1].month - 1) + ret.arg[3]

\* the date d is in month number n since year 0 and has the day of month and
\* the time of day of the date b
MovedTo(d, n, b) ==
    /\ d.month \in 1..12
    /\ 12 * d.year + (d.month - 1) = n
    /\ d.day = b.day /\ d.hour = b.hour /\ d.minute = b.minute
    /\ d.second = b.second /\ d.microsecond = b.microsecond

\* C16 as stated: for every base date and all offsets of months and years,
\* datetime_add returns a date of month m' in 1..12 and year y' with
\* 12 * y' + (m' - 1) = 12 * (y + j) + (m - 1) + k and the base's day of
\* month and time of day
C16_AddAlwaysReturns ==
    ret.op = "datetime_add"
    => /\ ret.err = None
       /\ MovedTo(ret.value[1], MonthsOfTarget, ret.arg[1])

\* C16, amended: datetime_add returns that date when its year is in 1..9999
\* and its month has the base's day of month, and raises ValueError when not
C16_AddWrapsOrRejects ==
    ret.op = "datetime_add"
    => IF ValidDate(MonthsOfTarget \div 12, (MonthsOfTarget % 12) + 1,
                    ret.arg[1].day)
       THEN /\ ret.err = None
            /\ MovedTo(ret.value[1], MonthsOfTarget, ret.arg[1])
       ELSE ret.err # None /\ ret.err.tag = "ValueError" /\ ret.value = <<>>

\* months taken from a date have carried into the year before
C16_Witness ==
    /\ ret.op = "datetime_add" /\ ret.err = None
    /\ ret.arg[3] < 0 /\ ret.arg[2] = 0
    /\ ret.value[1].year = ret.arg[1].year - 1
    /\ ret.value[1].month = 12
\* the start of the period of a call c of day or month
PeriodStart(c) ==
    IF c.op = "day"
    THEN datetime_add(datetime(c.arg.now.year, c.arg.now.month, c.arg.now.day,
                               0, 0, 0, 0), 0, 0, 0, c.arg.offset).value
    ELSE datetime_add(datetime(c.arg.now.year, c.arg.now.month, 1, 0, 0, 0, 0),
                      0, c.arg.offset, 0, 0).value

\* the window the failing step of a call c searched: the window before the
\* call, or for a calendar helper whose after step succeeded, what that step
\* left
StepWindow(c) ==
    IF c.op \in {"before", "after"} THEN c.pre
    ELSE IF after(tl_src, InitData(tl_src), c.pre, PeriodStart(c)).err # None
    THEN c.pre
    ELSE after(tl_src, InitData(tl_src), c.pre, PeriodStart(c)).window

\* the exception the probe of slot new of the window w raises
ProbeFailure(w, new) ==
    IF parse(tl_src, w[new + 1]).tag = "ParseError"
    THEN parse(tl_src, w[new + 1])
    ELSE IF parse(tl_src, w[new + 1]) = EMPTY_LINE THEN TypeError
    ELSE None

\* C17: when a probe of split fails, on a line that does not parse or on a
\* Blank, the call raises that failure and leaves the window as the failing
\* step found it: as it was before a before or an after, and as the after
\* step left it in a calendar helper whose before step fails
C17_FailedProbeLeavesWindow ==
    \A q \in DOMAIN q_data : \A k \in 1..Len(q_calls[q]) :
        q_calls[q][k].err # None
        => /\ q_calls[q][k].probes # <<>>
           /\ q_calls[q][k].err =
                ProbeFailure(StepWindow(q_calls[q][k]),
                    q_calls[q][k].probes[Len(q_calls[q][k].probes)][2])
           /\ WindowAfter(q, k) = StepWindow(q_calls[q][k])
           /\ (k = Len(q_calls[q]) /\ ret.op = q_calls[q][k].op)
              => ret.err = q_calls[q][k].err

\* a before has failed on a line that does not parse, and after it a calendar
\* helper whose after step had narrowed the window
C17_Witness ==
    /\ Len(q_calls[1]) = 2
    /\ q_calls[1][1].op = "before"
    /\ q_calls[1][1].err # None /\ q_calls[1][1].err.tag = "ParseError"
    /\ q_calls[1][2].op \in {"day", "month"}
    /\ q_calls[1][2].err # None /\ q_calls[1][2].err.tag = "ParseError"
    /\ q_calls[1][2].pre = InitWindow(tl_src)
    /\ q_data[1] # q_calls[1][2].pre
    /\ ret.op = q_calls[1][2].op /\ ret.err = q_calls[1][2].err
\* the calendar date of an entry
DateOf(x) == <<x.dt.year, x.dt.month, x.dt.day>>

\* the positions k of e from 2 on whose entry is of another date than the
\* entry before it, and the earlier dates of those pairs as the log writes
\* dates, in the order of the scan, from position k on
DayChanges(e) == {k \in 2..Len(e) : DateOf(e[k - 1]) # DateOf(e[k])}

RECURSIVE EarlierDays(_, _)
EarlierDays(e, k) ==
    IF k > Len(e) THEN <<>>
    ELSE IF k \in DayChanges(e)
    THEN <<FmtDate(e[k - 1].dt)>> \o EarlierDays(e, k + 1)
    ELSE EarlierDays(e, k + 1)

\* C18: timelog2csv prints exactly one line for every pair of consecutive
\* entries of different calendar dates, in the order of the scan and
\* labelled with the date of the earlier entry of the pair; nothing is
\* printed after the last entry, so the last day of the log gets no line
C18_OneLinePerDayChange ==
    (ret.op = "timelog2csv" /\ ret.err = None)
    => /\ Len(ret.value) = Cardinality(DayChanges(EntriesOf(InitWindow(tl_src))))
       /\ [k \in 1..Len(ret.value) |-> ret.value[k].day]
            = EarlierDays(EntriesOf(InitWindow(tl_src)), 2)
       /\ (tl_src # <<>> /\ Ascending(InitWindow(tl_src)))
          => \A k \in 1..Len(ret.value) :
                ret.value[k].day
                  # FmtDate(EntriesOf(InitWindow(tl_src))[Len(tl_src)].dt)

\* a log of four entries on three ascending days has been printed: two
\* lines, none for the last day
C18_Witness ==
    /\ ret.op = "timelog2csv" /\ ret.err = None
    /\ Len(tl_src) = 4 /\ Ascending(InitWindow(tl_src))
    /\ Len(ret.value) = 2
    /\ ret.value[1].hours = 8
\* a step from a call of sum to a call of by_comment, and one from by_comment
\* to sum: both raise the same or neither raises, and then the values of the
\* dict add up to the timedelta
SumThenByComment ==
    (ret.op = "sum" /\ ret'.op = "by_comment")
    => /\ ret'.err = ret.err
       /\ ret.err = None => <<TotalOf(ret'.value)>> = ret.value

ByCommentThenSum ==
    (ret.op = "by_comment" /\ ret'.op = "sum")
    => /\ ret'.err = ret.err
       /\ ret.err = None => ret'.value = <<TotalOf(ret.value)>>

\* C19: on one Extractor the values of by_comment() add up to sum(), a call
\* of either returns (or raises) what the call of it before did, whatever
\* was called in between, and no call changes the Extractor's data
C19_BucketsAddUpToSum ==
    [][/\ ex_data' = ex_data
       /\ SumThenByComment
       /\ ByCommentThenSum
       /\ ret.op = ret'.op => ret' = ret]_vars

\* by_comment has returned two buckets from entries some of which are
\* marked, and the buckets add up to sum() and to neither of them alone
C19_Witness ==
    /\ ret.op = "by_comment" /\ ret.err = None
    /\ IsEntries(ex_data) /\ ~NoMarkers(ex_data)
    /\ Len(ret.value) = 2
    /\ \A k \in 1..Len(ret.value) : TotalOf(ret.value) # ret.value[k].val
    /\ <<TotalOf(ret.value)>> = sum(ex_data).value

====
